---- MODULE Spec2Model ----
(***************************************************************************)
(* A model of the flipboard: a grid of FlipPads, each made of four Flaps,  *)
(* flipped together by Flipboard.flip and fed by a Cycler.                 *)
(*                                                                         *)
(* src/script.js holds two programs: the colour board (lines 1-298, whose  *)
(* Flipboard.flip flips every pad in one task) and the image board (lines  *)
(* 300-765, whose Flipboard.flip schedules one setTimeout per pad).  The   *)
(* Cycler that src/demo/index.js constructs is not in src/: it is modelled *)
(* from the specification, on top of the image board.  The variable        *)
(* `variant` says which program a behaviour is a run of.                   *)
(*                                                                         *)
(* JavaScript runs one task at a time, so every action is one task: a call *)
(* from the host page, a setTimeout or setInterval callback, or the        *)
(* delivery of one transitionend event.                                    *)
(***************************************************************************)
EXTENDS Integers, Sequences, FiniteSets, Bags, TLC

\* ---------------------------------------------------------------- bounds
\* The grids constructed have at most MaxPads pads (numCols * numRows).
MaxPads == 2
\* The length of imageUrlList (the image board needs at least two).
NumImages == 2
\* Flipboard.flip is called at most MaxCalls times in a behaviour.
MaxCalls == 2
\* The clock of the Cycler's interval timer runs from 0 to MaxTime.
MaxTime == 6
\* Flipboards are constructed with 1..MaxSide columns and rows,
MaxSide == 3
\* a padSize of 1..MaxPadSize,
MaxPadSize == 3
\* and an imageUrlList of 0..MaxList images.
MaxList == 3
\* A Flap driven on its own hears at most MaxEvents transitionend events.
MaxEvents == 3

\* ------------------------------------------------------ program constants
\* const Orientation = { TOP: 1, BOTTOM: 2 }
TOP == 1
BOTTOM == 2
\* new Cycler(flipboard, 4, [...]): the cycle period, in seconds
CyclePeriod == 4
\* new Flipboard(6, 4, 100, imageUrls): the padSize of the page's board
PadSize == 100
\* new Flipboard(8, 8, 80): the padSize of the colour board
ColorPadSize == 80
\* this.createGridDiv(numCols, '4px'): the gap between the pads, in px
CellGap == 4

VARIABLES
    variant,    \* "color" | "image" | "cycler": the program that runs
    numCols,    \* Flipboard.numCols
    numRows,    \* Flipboard.numRows
    padGrid,    \* Flipboard.padGrid: [col, row] -> FlipPad
    timeouts,   \* the pending window.setTimeout closures of Flipboard.flip (a bag)
    cycler,     \* the Cycler: currentIndex, enabled, interval handle
    intervals,  \* the active setInterval timers of the page
    now,        \* the clock, in seconds
    calls,      \* history: the number of Flipboard.flip calls made so far
    overlap,    \* history: a call was made while an earlier one was outstanding
    cbRuns,     \* history: how often a completion callback has run
    staged,     \* history: each pad's current and next fill when its flip began,
                \* the callback that flip was called with, and the callbacks
                \* of the flip() calls the pad has ignored since
    dirty,      \* history: a fill was assigned to the pad since its flip began
    lastManual, \* history: the time of the last manualCycle() (-1: none)
    last,       \* history: the task that ran last
    construction, \* the outcome of `new Flipboard(...)`: patternsDiv, padSize, how far it got
    loneFlap    \* a Flap of its own, driven through its methods, and its callbacks' runs

vars == << variant, numCols, numRows, padGrid, timeouts, cycler, intervals, now,
           calls, overlap, cbRuns, staged, dirty, lastManual, last, construction, loneFlap >>

\* The state of the board proper.
boardVars == << variant, numCols, numRows, padGrid, timeouts, cycler, intervals, now,
                calls, overlap, cbRuns, staged, dirty, lastManual, last >>

\* ------------------------------------------------------------ the grid
Cells == (0 .. numCols - 1) \X (0 .. numRows - 1)

\* Every cell any constructed grid can have.
AllCells == (0 .. MaxPads - 1) \X (0 .. MaxPads - 1)

\* The four Flap objects a FlipPad constructs, in construction order:
\* currentTopFlap, currentBottomFlap, nextBottomFlap, nextTopFlap.
FlapIds == 1 .. 4

\* ------------------------------------------------------------ fills
\* Strings are sequences of characters.
Digit(d) == << "0", "1", "2", "3", "4", "5", "6", "7", "8", "9" >>[d + 1]

RECURSIVE NumberToString(_)
NumberToString(n) ==
    IF n < 10 THEN << Digit(n) >>
    ELSE NumberToString(n \div 10) \o << Digit(n % 10) >>

\* A pattern id that leaves the gridId out.
GetCellPatternIdNoGrid(gridId, col, row) ==
    NumberToString(col) \o << "-" >> \o NumberToString(row)

\* SvgImageGrid.getCellPatternId: this.gridId + '-' + col + '-' + row
GetCellPatternId(gridId, col, row) ==
    NumberToString(gridId) \o << "-" >> \o NumberToString(col)
        \o << "-" >> \o NumberToString(row)

\* 'url(#' + cellFillPatternId + ')'
FillUrl(cellFillPatternId) ==
    << "u", "r", "l", "(", "#" >> \o cellFillPatternId \o << ")" >>

\* The fill Flipboard.setCurrentImage / setNextImage gives pad c for
\* this.imageGrids[gridId] (gridId is the index in imageUrlList).
ImageFill(gridId, c) == FillUrl(GetCellPatternId(gridId, c[1], c[2]))

\* ------------------------------------------------------------ SvgImageGrid
\* new SvgImageGrid(imageUrl, cellSize, numCols, numRows, gridId); the image is
\* named by its index in imageUrlList, and patternImage is sized to the grid.
NewSvgImageGrid(imageUrl, cellSize, cols, rows, gridId) ==
    [ gridId       |-> gridId,
      numCols      |-> cols,
      numRows      |-> rows,
      cellSize     |-> cellSize,
      patternImage |-> [href |-> imageUrl, width |-> cols * cellSize, height |-> rows * cellSize] ]

\* An x sized by the column index alone.
PatternOffsetUnscaled(index, cellSize) == << "-" >> \o NumberToString(index)

\* '-' + col * this.cellSize: the pattern's x (and, with row, y) attribute
PatternOffsetAttribute(index, cellSize) == << "-" >> \o NumberToString(index * cellSize)

\* The <pattern> element createPatternsDefs creates for (col, row).
CreatePattern(svgImageGrid, col, row) ==
    [ id     |-> GetCellPatternId(svgImageGrid.gridId, col, row),
      x      |-> PatternOffsetAttribute(col, svgImageGrid.cellSize),
      y      |-> PatternOffsetAttribute(row, svgImageGrid.cellSize),
      width  |-> svgImageGrid.numCols * svgImageGrid.cellSize,
      height |-> svgImageGrid.numRows * svgImageGrid.cellSize,
      image  |-> svgImageGrid.patternImage,
      col    |-> col,
      row    |-> row ]

\* SvgImageGrid.createPatternsDefs: the <pattern> elements of the <defs>.
CreatePatternsDefs(svgImageGrid) ==
    { CreatePattern(svgImageGrid, col, row) :
        col \in 0 .. svgImageGrid.numCols - 1, row \in 0 .. svgImageGrid.numRows - 1 }

\* How SVG reads a number attribute such as '-200'.
DigitValue(ch) == CHOOSE d \in 0 .. 9 : Digit(d) = ch

RECURSIVE ParseDigits(_)
ParseDigits(str) ==
    IF Len(str) = 0 THEN 0
    ELSE 10 * ParseDigits(SubSeq(str, 1, Len(str) - 1)) + DigitValue(str[Len(str)])

ParseNumber(str) ==
    IF Len(str) > 0 /\ str[1] = "-" THEN 0 - ParseDigits(Tail(str)) ELSE ParseDigits(str)

\* patternUnits = userSpaceOnUse: the pattern tile starts at (x, y) of the
\* flap's own coordinate system, so the flap shows the image from (-x, -y) on.
FragmentOffset(pattern) == << 0 - ParseNumber(pattern.x), 0 - ParseNumber(pattern.y) >>

\* The pixels of the image a flap of side cellSize filled with the pattern shows.
FragmentRegion(pattern, cellSize) ==
    (FragmentOffset(pattern)[1] .. FragmentOffset(pattern)[1] + cellSize - 1)
        \X (FragmentOffset(pattern)[2] .. FragmentOffset(pattern)[2] + cellSize - 1)

\* 'red' and 'blue', the colours FlipPad's constructor sets (colour board).
Red == << "r", "e", "d" >>
Blue == << "b", "l", "u", "e" >>

\* getRandomColor(): a random '#rrggbb'.  The colours are opaque to the
\* program; the k-th call returns a colour of its own.
GetRandomColor(k) == << "#" >> \o NumberToString(k)

\* A flap no fill was assigned to.
NoFill == << >>

\* ------------------------------------------------------------ callbacks
\* A callback value: null/undefined, or one of the closures the programs
\* create.
NullCb == [kind |-> "null", color |-> NoFill]

\* () => { this.setNextColor(nextColor); }
SetNextColorCb(nextColor) == [kind |-> "setNextColor", color |-> nextColor]

\* () => { // TODO: change next image to next in series here? }
EmptyCb == [kind |-> "empty", color |-> NoFill]

\* The Cycler's completion callback.
CyclerCb == [kind |-> "cycler", color |-> NoFill]

\* Callbacks a caller of FlipPad.flip may pass: one that calls flip() on the
\* same pad, and one that calls setNextPageFill(fill) on it.
FlipAgainCb(c) == [kind |-> "flipAgain", color |-> NoFill, pad |-> c]
SetNextPageFillCb(c, fill) == [kind |-> "setNextPageFill", color |-> fill, pad |-> c]

\* svgElement.ontransitionend: unset, or FlipPad.flip's onTransitionEndCallback
\* closure, which holds the onFlipFinishedCallback it was created with.
NoHandler == [set |-> FALSE, cb |-> NullCb]
OnTransitionEndClosure(onFlipFinishedCallback) == [set |-> TRUE, cb |-> onFlipFinishedCallback]

\* ------------------------------------------------------------ Flap
\* Flap's constructor: enableTransition(); no transform, fill or zIndex yet.
NewFlap(orientation) ==
    [ orientation     |-> orientation,
      fill            |-> NoFill,
      transform       |-> "0deg",
      zIndex          |-> 0,
      transition      |-> TRUE,
      ontransitionend |-> NoHandler,
      running         |-> FALSE ]

\* svgElement.style.transform = t: with a transition set and a new value the
\* change is animated (a transition runs, and ends with a transitionend event);
\* with no transition it is instantaneous.
SetTransform(flap, t) ==
    [flap EXCEPT !.transform = t,
                 !.running = IF ~flap.transition THEN FALSE
                             ELSE IF flap.transform # t THEN TRUE ELSE @]

SetHandler(flap, onTransitionEndCallback) ==
    IF onTransitionEndCallback.set
    THEN [flap EXCEPT !.ontransitionend = onTransitionEndCallback]
    ELSE flap

\* Flap.rotate(onTransitionEndCallback)
FlapRotate(flap, onTransitionEndCallback) ==
    SetHandler(SetTransform(flap, "180deg"), onTransitionEndCallback)

\* Flap.unrotate(onTransitionEndCallback)
FlapUnrotate(flap, onTransitionEndCallback) ==
    SetHandler(SetTransform(flap, "0deg"), onTransitionEndCallback)

\* The end of a transition is observable only through ontransitionend: a
\* transition of a flap that has no handler ends unheard, and is not tracked.
Unheard(flap) == IF flap.ontransitionend.set THEN flap ELSE [flap EXCEPT !.running = FALSE]

\* Flap.bringToFront / Flap.sendToBack
BringToFront(flap) == [flap EXCEPT !.zIndex = 1]
SendToBack(flap) == [flap EXCEPT !.zIndex = -1]

\* A disableTransition that leaves style.transition as it is.
DisableTransitionSkipped(flap) == flap

\* Flap.disableTransition: style.transition = null; a running transition is
\* cancelled (no transitionend).
DisableTransition(flap) == [flap EXCEPT !.transition = FALSE, !.running = FALSE]

\* Flap.enableTransition: style.transition = 'transform 1s'
EnableTransition(flap) == [flap EXCEPT !.transition = TRUE]

\* Flap.setFill / Flap.setColor
SetFill(flap, fillString) == [flap EXCEPT !.fill = fillString]

\* ------------------------------------------------------------ FlipPad
\* Resting depths that bring the current page to the front and leave the next
\* page where it is.
SetRestingFlapDepthsFrontOnly(pad) ==
    [pad EXCEPT !.flaps = [id \in FlapIds |->
        IF id \in {pad.currentTopFlap, pad.currentBottomFlap} THEN BringToFront(pad.flaps[id])
        ELSE pad.flaps[id]]]

\* FlipPad.setRestingFlapDepths
SetRestingFlapDepths(pad) ==
    [pad EXCEPT !.flaps = [id \in FlapIds |->
        IF id \in {pad.currentTopFlap, pad.currentBottomFlap} THEN BringToFront(pad.flaps[id])
        ELSE IF id \in {pad.nextTopFlap, pad.nextBottomFlap} THEN SendToBack(pad.flaps[id])
        ELSE pad.flaps[id]]]

\* Transition depths that are never set.
SetTransitionFlapDepthsSkipped(pad) == pad

\* FlipPad.setTransitionFlapDepths
SetTransitionFlapDepths(pad) ==
    LET flaps1 == [pad.flaps EXCEPT ![pad.nextBottomFlap] = BringToFront(@)]
    IN  [pad EXCEPT !.flaps = [flaps1 EXCEPT ![pad.currentBottomFlap] = SendToBack(@)]]

\* A swapFlapReferences that exchanges nothing.
SwapNothing(pad) == pad

\* A swap written without the temporaries: the next references are assigned
\* from the current ones after these were overwritten.
SwapFlapReferencesNoTemp(pad) ==
    [pad EXCEPT !.currentBottomFlap = pad.nextBottomFlap,
                !.currentTopFlap = pad.nextTopFlap]

\* A swap that crosses top and bottom.
SwapFlapReferencesCrossed(pad) ==
    [pad EXCEPT !.currentBottomFlap = pad.nextTopFlap,
                !.currentTopFlap = pad.nextBottomFlap,
                !.nextBottomFlap = pad.currentTopFlap,
                !.nextTopFlap = pad.currentBottomFlap]

\* FlipPad.swapFlapReferences
SwapFlapReferences(pad) ==
    [pad EXCEPT !.currentBottomFlap = pad.nextBottomFlap,
                !.currentTopFlap = pad.nextTopFlap,
                !.nextBottomFlap = pad.currentBottomFlap,
                !.nextTopFlap = pad.currentTopFlap]

\* FlipPad.setNextPageFill / FlipPad.setNextPageColor
SetNextPageFill(pad, fillString) ==
    LET flaps1 == [pad.flaps EXCEPT ![pad.nextTopFlap] = SetFill(@, fillString)]
    IN  [pad EXCEPT !.flaps = [flaps1 EXCEPT ![pad.nextBottomFlap] = SetFill(@, fillString)]]

\* FlipPad.setCurrentPageFill / FlipPad.setCurrentPageColor
SetCurrentPageFill(pad, fillString) ==
    LET flaps1 == [pad.flaps EXCEPT ![pad.currentTopFlap] = SetFill(@, fillString)]
    IN  [pad EXCEPT !.flaps = [flaps1 EXCEPT ![pad.currentBottomFlap] = SetFill(@, fillString)]]

\* FlipPad's constructor (image board): four flaps, nextBottomFlap.rotate()
\* before the flaps are attached (nothing is animated), resting depths.
NewFlipPad ==
    LET flaps0 == [id \in FlapIds |->
                     IF id \in {1, 4} THEN NewFlap(TOP) ELSE NewFlap(BOTTOM)]
        flaps1 == [flaps0 EXCEPT ![3] = [FlapRotate(@, NoHandler) EXCEPT !.running = FALSE]]
    IN  SetRestingFlapDepths(
            [ currentTopFlap    |-> 1,
              currentBottomFlap |-> 2,
              nextBottomFlap    |-> 3,
              nextTopFlap       |-> 4,
              flaps             |-> flaps1,
              isFlipping        |-> FALSE ])

\* FlipPad's constructor (colour board): as above, and
\* setCurrentPageColor('red'); setNextPageColor('blue') before the depths.
NewColorFlipPad ==
    SetRestingFlapDepths(SetNextPageFill(SetCurrentPageFill(NewFlipPad, Red), Blue))

\* FlipPad.flip past its guard: the pad enters the transition.
StartFlip(pad, onFlipFinishedCallback) ==
    LET pad1 == [pad EXCEPT !.isFlipping = TRUE]
        pad2 == [pad1 EXCEPT !.flaps[pad.currentTopFlap] = EnableTransition(@)]
        pad3 == [pad2 EXCEPT !.flaps[pad.nextBottomFlap] = EnableTransition(@)]
        pad4 == SetTransitionFlapDepths(pad3)
        pad5 == [pad4 EXCEPT !.flaps[pad.currentTopFlap] =
                    FlapRotate(@, OnTransitionEndClosure(onFlipFinishedCallback))]
    IN  [pad5 EXCEPT !.flaps[pad.nextBottomFlap] = Unheard(FlapUnrotate(@, NoHandler))]

\* A flip() without its guard (if (this.isFlipping) return;).
FlipPadFlipUnguarded(pad, onFlipFinishedCallback) == StartFlip(pad, onFlipFinishedCallback)

\* A flip() that exchanges the pages when it starts.
FlipPadFlipSwapsEarly(pad, onFlipFinishedCallback) ==
    IF pad.isFlipping THEN pad
    ELSE SwapFlapReferences(StartFlip(pad, onFlipFinishedCallback))

\* FlipPad.flip(onFlipFinishedCallback): what the call itself does.
FlipPadFlip(pad, onFlipFinishedCallback) ==
    IF pad.isFlipping THEN pad
    ELSE StartFlip(pad, onFlipFinishedCallback)

\* A handler that resets isFlipping before it calls onFlipFinishedCallback.
RecycleFlapsAndRest(pad) ==
    LET pad1 == [pad EXCEPT !.flaps[pad.currentBottomFlap] = DisableTransition(@)]
        pad2 == [pad1 EXCEPT !.flaps[pad.currentTopFlap] = DisableTransition(@)]
        pad3 == [pad2 EXCEPT !.flaps[pad.currentBottomFlap] = FlapRotate(@, NoHandler)]
        pad4 == [pad3 EXCEPT !.flaps[pad.currentTopFlap] = FlapUnrotate(@, NoHandler)]
    IN  [SetRestingFlapDepths(SwapFlapReferences(pad4)) EXCEPT !.isFlipping = FALSE]

\* onTransitionEndCallback, up to the call of onFlipFinishedCallback: the
\* hidden current flaps are moved without animation, become the next flaps,
\* and the resting depths are restored.
RecycleFlaps(pad) ==
    LET pad1 == [pad EXCEPT !.flaps[pad.currentBottomFlap] = DisableTransition(@)]
        pad2 == [pad1 EXCEPT !.flaps[pad.currentTopFlap] = DisableTransition(@)]
        pad3 == [pad2 EXCEPT !.flaps[pad.currentBottomFlap] = FlapRotate(@, NoHandler)]
        pad4 == [pad3 EXCEPT !.flaps[pad.currentTopFlap] = FlapUnrotate(@, NoHandler)]
    IN  SetRestingFlapDepths(SwapFlapReferences(pad4))

\* A completion handler that leaves isFlipping set.
FinishFlipForgotten(pad) == pad

\* onTransitionEndCallback's last statement: this.isFlipping = false
FinishFlip(pad) == [pad EXCEPT !.isFlipping = FALSE]

\* The fills of a pad's two pages (both flaps of a page, top then bottom).
CurrentFills(pad) == << pad.flaps[pad.currentTopFlap].fill, pad.flaps[pad.currentBottomFlap].fill >>
NextFills(pad) == << pad.flaps[pad.nextTopFlap].fill, pad.flaps[pad.nextBottomFlap].fill >>

\* ------------------------------------------------------------ Flipboard
\* Flipboard.getNumPads (colour board); this.numRows * this.numCols (image board)
GetNumPads == numCols * numRows

\* The value of numPadsFlipped when the loops of Flipboard.flip reach pad c:
\* `for (let rowArray of this.padGrid) for (let flipPad of rowArray)`.
NumPadsFlippedAt(c) == c[1] * numRows + c[2] + 1

\* The value of numPadsFlipped that the setTimeout closure of pad c reads
\* (image board).  `let numPadsFlipped` is declared outside the loops: every
\* closure shares the one binding and reads it when its timer fires, after
\* the loops have run to their end.
NumPadsFlippedInTimer(c) == GetNumPads

\* Flipboard.setNextColor(color)
SetNextColor(grid, color) ==
    [c \in DOMAIN grid |-> SetNextPageFill(grid[c], color)]

\* Flipboard.setCurrentImage(this.imageGrids[gridId])
SetCurrentImage(grid, gridId) ==
    [c \in DOMAIN grid |-> SetCurrentPageFill(grid[c], ImageFill(gridId, c))]

\* A setNextImage that looks the pad up as padGrid[row][col].
SetNextImageTransposed(grid, gridId) ==
    [c \in DOMAIN grid |->
        IF << c[2], c[1] >> \in DOMAIN grid
        THEN SetNextPageFill(grid[c], ImageFill(gridId, << c[2], c[1] >>))
        ELSE grid[c]]

\* Flipboard.setNextImage(this.imageGrids[gridId])
SetNextImage(grid, gridId) ==
    [c \in DOMAIN grid |-> SetNextPageFill(grid[c], ImageFill(gridId, c))]

\* Flipboard's constructor (colour board): numCols x numRows new FlipPads.
NewColorPadGrid(cols, rows) ==
    [c \in (0 .. cols - 1) \X (0 .. rows - 1) |-> NewColorFlipPad]

\* Flipboard's constructor (image board): createPadGrid, then
\* setCurrentImage(this.imageGrids[0]); setNextImage(this.imageGrids[1]).
NewImagePadGrid(cols, rows) ==
    SetNextImage(
        SetCurrentImage([c \in (0 .. cols - 1) \X (0 .. rows - 1) |-> NewFlipPad], 0),
        1)

\* Flipboard.createPadGrid: padGrid[col][row], a new FlipPad each.
CreatePadGrid(cols, rows) ==
    [c \in (0 .. cols - 1) \X (0 .. rows - 1) |-> NewFlipPad]

\* this.imageGrids after the constructor's loop over imageUrlList (of n images).
ImageGrids(cols, rows, padSize, n) ==
    [i \in 0 .. n - 1 |-> NewSvgImageGrid(i, padSize, cols, rows, i)]

\* A missing segmenter that is skipped over.
NeverThrows(imageGrids, i) == FALSE

\* setCurrentImage / setNextImage called with this.imageGrids[i]: when the
\* list has no such entry the argument is undefined, and
\* svgImageGrid.getCellPatternId(col, row) throws a TypeError.
Throws(imageGrids, i) == i \notin DOMAIN imageGrids

\* new Flipboard(numCols, numRows, padSize, imageUrlList): how far the
\* constructor gets, and what it has built by then.
NewFlipboard(cols, rows, padSize, n) ==
    LET imageGrids == ImageGrids(cols, rows, padSize, n)
        patterns == UNION { CreatePatternsDefs(imageGrids[i]) : i \in DOMAIN imageGrids }
        pads == CreatePadGrid(cols, rows)
        base == [ status |-> "ok", numCols |-> cols, numRows |-> rows,
                  padSize |-> padSize, numImages |-> n,
                  patternsDiv |-> patterns, currentAssigned |-> TRUE,
                  nextAssigned |-> TRUE, padGrid |-> pads ]
    IN  IF Throws(imageGrids, 0)
        THEN [base EXCEPT !.status = "threw", !.currentAssigned = FALSE, !.nextAssigned = FALSE]
        ELSE IF Throws(imageGrids, 1)
        THEN [base EXCEPT !.status = "threw", !.nextAssigned = FALSE,
                          !.padGrid = SetCurrentImage(pads, 0)]
        ELSE [base EXCEPT !.padGrid = SetNextImage(SetCurrentImage(pads, 0), 1)]

\* No `new Flipboard` has run yet.
NotConstructed ==
    [ status |-> "none", numCols |-> 0, numRows |-> 0,
      padSize |-> 0, numImages |-> 0, patternsDiv |-> {},
      currentAssigned |-> FALSE, nextAssigned |-> FALSE ]

\* What a run of the constructor leaves besides the pads.
Outcome(board) ==
    [ status |-> board.status, numCols |-> board.numCols, numRows |-> board.numRows,
      padSize |-> board.padSize, numImages |-> board.numImages,
      patternsDiv |-> board.patternsDiv, currentAssigned |-> board.currentAssigned,
      nextAssigned |-> board.nextAssigned ]

\* The colour board's constructor: no segmenters, no patterns.
ColorOutcome(cols, rows) ==
    [ status |-> "ok", numCols |-> cols, numRows |-> rows,
      padSize |-> ColorPadSize, numImages |-> 0, patternsDiv |-> {},
      currentAssigned |-> TRUE, nextAssigned |-> TRUE ]

\* ------------------------------------------------------------ a Flap on its own
\* A callback a caller passes to Flap.rotate / Flap.unrotate.
ProbeCb(k) == [kind |-> "probe", color |-> NoFill, id |-> k]

\* A new Flap and the record of its callbacks: how many were passed, how often
\* each has run, how many transitionend events were delivered.
NewFlapProbe ==
    [ obj |-> NewFlap(TOP), given |-> 0, invoked |-> [k \in 1 .. MaxCalls |-> 0],
      events |-> 0, lastOp |-> "new" ]

\* ------------------------------------------------------------ Cycler
\* The Cycler after construction: the first image is displayed, no timer runs.
NewCycler == [currentIndex |-> 0, enabled |-> FALSE, interval |-> 0]

\* The completion callback cycle() passes to the grid: currentIndex advances
\* circularly and the grid's next fill becomes the segmenter one past it.
CyclerAdvance(cyc) == [cyc EXCEPT !.currentIndex = (cyc.currentIndex + 1) % NumImages]

CyclerNextIndex(cyc) == (cyc.currentIndex + 1) % NumImages

\* The id setInterval returns: one no active timer has.
FreshTimerId(active) ==
    CHOOSE n \in 1 .. Cardinality(active) + 1 : \A i \in active : i.id # n

\* clearInterval(handle)
ClearInterval(active, handle) == { i \in active : i.id # handle }

\* An enableCycling() that starts a timer without clearing the prior one.
CyclerEnableNoClear(cyc, active, t) ==
    LET id == FreshTimerId(active)
    IN  [ cycler    |-> [cyc EXCEPT !.enabled = TRUE, !.interval = id],
          intervals |-> active \cup { [id |-> id, due |-> t + CyclePeriod] } ]

\* enableCycling(): clears any prior timer, then starts the periodic timer.
CyclerEnable(cyc, active, t) ==
    LET cleared == ClearInterval(active, cyc.interval)
        id == FreshTimerId(cleared)
    IN  [ cycler    |-> [cyc EXCEPT !.enabled = TRUE, !.interval = id],
          intervals |-> cleared \cup { [id |-> id, due |-> t + CyclePeriod] } ]

\* A disableCycling() that leaves the periodic timer running.
CyclerDisableKeepTimer(cyc, active) ==
    [ cycler    |-> [cyc EXCEPT !.enabled = FALSE, !.interval = 0],
      intervals |-> active ]

\* disableCycling(): stops the timer.
CyclerDisable(cyc, active) ==
    [ cycler    |-> [cyc EXCEPT !.enabled = FALSE, !.interval = 0],
      intervals |-> ClearInterval(active, cyc.interval) ]

\* A manualCycle() that leaves the periodic timer running as it was.
CyclerNoRestart(cyc, active, t) == [cycler |-> cyc, intervals |-> active]

\* manualCycle(), after its cycle(): if cycling is enabled, the periodic
\* timer is restarted.
CyclerRestart(cyc, active, t) ==
    IF cyc.enabled THEN CyclerEnable(cyc, active, t)
    ELSE [cycler |-> cyc, intervals |-> active]

\* ------------------------------------------------------------ callbacks run
\* Calling onFlipFinishedCallback: the grid and the Cycler after it.
RunCallback(cb, grid, cyc) ==
    CASE cb.kind = "setNextColor" ->
            [padGrid |-> SetNextColor(grid, cb.color), cycler |-> cyc]
      [] cb.kind = "cycler" ->
            [padGrid |-> SetNextImage(grid, CyclerNextIndex(CyclerAdvance(cyc))),
             cycler  |-> CyclerAdvance(cyc)]
      [] cb.kind = "flipAgain" ->
            [padGrid |-> [grid EXCEPT ![cb.pad] = FlipPadFlip(@, NullCb)], cycler |-> cyc]
      [] cb.kind = "setNextPageFill" ->
            [padGrid |-> [grid EXCEPT ![cb.pad] = SetNextPageFill(@, cb.color)], cycler |-> cyc]
      [] OTHER -> [padGrid |-> grid, cycler |-> cyc]

\* Whether running the callback assigns fills to the pads.
AssignsFills(cb) == cb.kind \in {"setNextColor", "cycler", "setNextPageFill"}

\* ------------------------------------------------------------ the state machine
AllResting == \A c \in Cells : ~padGrid[c].isFlipping

\* Nothing of an earlier Flipboard.flip is outstanding.
Settled == AllResting /\ timeouts = EmptyBag

\* The record of the task that ran last: the pads whose flip() it called,
\* those of them that were flipping at the call, the pad whose completion
\* handler it ran, the callback that handler called, and how many
\* enableCycling() calls in a row it ends.
LastTask(op, called, ignored, completed, cb, streak) ==
    [ op |-> op, called |-> called, ignored |-> ignored,
      completed |-> completed, cb |-> cb, streak |-> streak ]

Shapes == { s \in (1 .. MaxPads) \X (1 .. MaxPads) : s[1] * s[2] <= MaxPads }

Init ==
    /\ variant \in {"color", "image", "cycler"}
    /\ \E s \in Shapes :
        /\ numCols = s[1]
        /\ numRows = s[2]
        /\ padGrid = IF variant = "color" THEN NewColorPadGrid(s[1], s[2])
                     ELSE NewImagePadGrid(s[1], s[2])
        /\ staged = [c \in (0 .. s[1] - 1) \X (0 .. s[2] - 1) |->
                        [current |-> << NoFill, NoFill >>, next |-> << NoFill, NoFill >>,
                         cb |-> NullCb, dropped |-> {}]]
        /\ dirty = [c \in (0 .. s[1] - 1) \X (0 .. s[2] - 1) |-> FALSE]
    /\ timeouts = EmptyBag
    /\ cycler = NewCycler
    /\ intervals = {}
    /\ now = 0
    /\ calls = 0
    /\ overlap = FALSE
    /\ cbRuns = 0
    /\ lastManual = -1
    /\ last = LastTask("init", {}, {}, {}, NullCb, 0)
    /\ construction = IF variant = "color" THEN ColorOutcome(numCols, numRows)
                      ELSE Outcome(NewFlipboard(numCols, numRows, PadSize, NumImages))
    /\ loneFlap = NewFlapProbe

\* The history of the pads a task calls flip() on: an accepted flip stages
\* the pad's fills.
FlipHistory(called) ==
    /\ staged' = [c \in Cells |->
                    IF c \in called /\ ~padGrid[c].isFlipping
                    THEN [staged[c] EXCEPT !.current = CurrentFills(padGrid[c]),
                                           !.next = NextFills(padGrid[c])]
                    ELSE staged[c]]
    /\ dirty' = [c \in Cells |->
                    IF c \in called /\ ~padGrid[c].isFlipping THEN FALSE ELSE dirty[c]]

\* The history of a Flipboard.flip call.
CallHistory ==
    /\ calls' = calls + 1
    /\ overlap' = (overlap \/ ~Settled)

\* Flipboard.flip() of the colour board: every pad is flipped in this task,
\* the last one in iteration order with the callback.
FlipboardFlipColor ==
    /\ variant = "color"
    /\ calls < MaxCalls
    /\ LET nextColor == GetRandomColor(calls + 1)
       IN  padGrid' = [c \in Cells |->
                IF NumPadsFlippedAt(c) >= GetNumPads
                THEN FlipPadFlip(padGrid[c], SetNextColorCb(nextColor))
                ELSE FlipPadFlip(padGrid[c], NullCb)]
    /\ CallHistory
    /\ FlipHistory(Cells)
    /\ last' = LastTask("flip", Cells, { c \in Cells : padGrid[c].isFlipping }, {}, NullCb, 0)
    /\ UNCHANGED << construction, loneFlap, variant, numCols, numRows, timeouts, cycler, intervals, now,
                    cbRuns, lastManual >>

\* The loops of Flipboard.flip() of the image board: one setTimeout per pad,
\* each closure holding its flipPad and the callback.
ScheduleFlips(onLastPadFlippedCallback) ==
    timeouts' = timeouts (+)
        SetToBag({ [pad |-> c, cb |-> onLastPadFlippedCallback] : c \in Cells })

\* Flipboard.flip() of the image board, called by the page.
FlipboardFlipImage ==
    /\ variant = "image"
    /\ calls < MaxCalls
    /\ ScheduleFlips(EmptyCb)
    /\ CallHistory
    /\ last' = LastTask("flip", {}, {}, {}, NullCb, 0)
    /\ UNCHANGED << construction, loneFlap, variant, numCols, numRows, padGrid, cycler, intervals, now,
                    cbRuns, staged, dirty, lastManual >>

\* A setTimeout closure of Flipboard.flip runs.
TimeoutFire(t) ==
    /\ BagIn(t, timeouts)
    /\ timeouts' = timeouts (-) SetToBag({t})
    /\ padGrid' = [padGrid EXCEPT ![t.pad] =
            IF NumPadsFlippedInTimer(t.pad) >= GetNumPads
            THEN FlipPadFlip(@, t.cb)
            ELSE FlipPadFlip(@, NullCb)]
    /\ FlipHistory({t.pad})
    /\ last' = LastTask("timeout", {t.pad}, { c \in {t.pad} : padGrid[c].isFlipping },
                        {}, NullCb, 0)
    /\ UNCHANGED << construction, loneFlap, variant, numCols, numRows, cycler, intervals, now,
                    calls, overlap, cbRuns, lastManual >>

\* The transition of flap id of pad c ends: the browser delivers transitionend
\* to the flap's svgElement, and its ontransitionend handler, if any, runs.
TransitionEnd(c, id) ==
    /\ c \in Cells
    /\ padGrid[c].flaps[id].running
    /\ LET handler == padGrid[c].flaps[id].ontransitionend
           ended == [padGrid EXCEPT ![c].flaps[id].running = FALSE]
           recycled == [ended EXCEPT ![c] = RecycleFlaps(@)]
           after == RunCallback(handler.cb, recycled, cycler)
       IN  IF handler.set
           THEN /\ padGrid' = [after.padGrid EXCEPT ![c] = FinishFlip(@)]
                /\ cycler' = after.cycler
                /\ cbRuns' = IF handler.cb.kind = "null" THEN cbRuns ELSE cbRuns + 1
                /\ dirty' = [d \in Cells |->
                                dirty[d] \/ (AssignsFills(handler.cb) /\ padGrid[d].isFlipping)]
                /\ last' = LastTask("transitionend", {}, {}, {c}, handler.cb, 0)
           ELSE /\ padGrid' = ended
                /\ last' = LastTask("transitionend", {}, {}, {}, NullCb, 0)
                /\ UNCHANGED << cycler, cbRuns, dirty >>
    /\ UNCHANGED << construction, loneFlap, variant, numCols, numRows, timeouts, intervals, now,
                    calls, overlap, staged, lastManual >>

\* cycle(): the grid is flipped with the Cycler's completion callback.
Cycle ==
    /\ calls < MaxCalls
    /\ ScheduleFlips(CyclerCb)
    /\ CallHistory
    /\ UNCHANGED << construction, loneFlap, variant, numCols, numRows, padGrid, now, cbRuns, staged, dirty >>

\* enableCycling(), called by the page.
EnableCycling ==
    /\ variant = "cycler"
    /\ cycler' = CyclerEnable(cycler, intervals, now).cycler
    /\ intervals' = CyclerEnable(cycler, intervals, now).intervals
    /\ last' = LastTask("enableCycling", {}, {}, {}, NullCb,
                        IF last.streak < 2 THEN last.streak + 1 ELSE 2)
    /\ UNCHANGED << construction, loneFlap, variant, numCols, numRows, padGrid, timeouts, now,
                    calls, overlap, cbRuns, staged, dirty, lastManual >>

\* disableCycling(), called by the page.
DisableCycling ==
    /\ variant = "cycler"
    /\ cycler' = CyclerDisable(cycler, intervals).cycler
    /\ intervals' = CyclerDisable(cycler, intervals).intervals
    /\ last' = LastTask("disableCycling", {}, {}, {}, NullCb, 0)
    /\ UNCHANGED << construction, loneFlap, variant, numCols, numRows, padGrid, timeouts, now,
                    calls, overlap, cbRuns, staged, dirty, lastManual >>

\* manualCycle(), called by the page (the cycle button).
ManualCycle ==
    /\ variant = "cycler"
    /\ Cycle
    /\ cycler' = CyclerRestart(cycler, intervals, now).cycler
    /\ intervals' = CyclerRestart(cycler, intervals, now).intervals
    /\ lastManual' = now
    /\ last' = LastTask("manualCycle", {}, {}, {}, NullCb, 0)

\* The periodic timer fires when it is due: an automatic cycle(); the timer
\* is due again a period later.
IntervalFire(i) ==
    /\ variant = "cycler"
    /\ i \in intervals
    /\ i.due = now
    /\ Cycle
    /\ intervals' = (intervals \ {i}) \cup { [i EXCEPT !.due = now + CyclePeriod] }
    /\ last' = LastTask("interval", {}, {}, {}, NullCb, 0)
    /\ UNCHANGED << cycler, lastManual >>

\* A second passes; a timer that is due fires first.
Tick ==
    /\ variant = "cycler"
    /\ now < MaxTime
    /\ \A i \in intervals : i.due > now
    /\ now' = now + 1
    /\ last' = LastTask("tick", {}, {}, {}, NullCb, 0)
    /\ UNCHANGED << construction, loneFlap, variant, numCols, numRows, padGrid, timeouts, cycler, intervals,
                    calls, overlap, cbRuns, staged, dirty, lastManual >>

\* The boards, and the Cycler driven by its cycle button: the periodic timer
\* is never started and the clock is left aside.
Next ==
    \/ FlipboardFlipColor
    \/ FlipboardFlipImage
    \/ \E t \in BagToSet(timeouts) : TimeoutFire(t)
    \/ \E c \in AllCells, id \in FlapIds : TransitionEnd(c, id)
    \/ ManualCycle

Spec == Init /\ [][Next]_vars

\* The Cycler with its periodic timer and the clock.  The timer neither reads
\* nor writes the grid: the grid it drives here is a single pad.
InitTimed ==
    /\ Init
    /\ variant = "cycler"
    /\ numCols = 1
    /\ numRows = 1

NextTimed ==
    \/ \E t \in BagToSet(timeouts) : TimeoutFire(t)
    \/ \E c \in AllCells, id \in FlapIds : TransitionEnd(c, id)
    \/ EnableCycling
    \/ DisableCycling
    \/ ManualCycle
    \/ \E i \in intervals : IntervalFire(i)
    \/ Tick

SpecTimed == InitTimed /\ [][NextTimed]_vars

\* The boards and the Cycler's page-facing calls, with the one assumption the
\* presentation layer is trusted for: a transition that runs ends, and its
\* transitionend event is delivered.
NextLive ==
    \/ FlipboardFlipColor
    \/ FlipboardFlipImage
    \/ \E t \in BagToSet(timeouts) : TimeoutFire(t)
    \/ \E c \in AllCells, id \in FlapIds : TransitionEnd(c, id)
    \/ ManualCycle
    \/ EnableCycling
    \/ DisableCycling

SpecLive ==
    /\ Init
    /\ [][NextLive]_vars
    /\ \A c \in AllCells, id \in FlapIds : WF_vars(TransitionEnd(c, id))

\* ------------------------------------------------------------ construction
\* Before the page's script has constructed its Flipboard.
InitConstruct ==
    /\ variant = "image"
    /\ numCols = 0
    /\ numRows = 0
    /\ padGrid = << >>
    /\ staged = << >>
    /\ dirty = << >>
    /\ timeouts = EmptyBag
    /\ cycler = NewCycler
    /\ intervals = {}
    /\ now = 0
    /\ calls = 0
    /\ overlap = FALSE
    /\ cbRuns = 0
    /\ lastManual = -1
    /\ last = LastTask("init", {}, {}, {}, NullCb, 0)
    /\ construction = NotConstructed
    /\ loneFlap = NewFlapProbe

\* new Flipboard(cols, rows, padSize, imageUrlList) with n images: when the
\* constructor throws, no Flipboard results.
ConstructFlipboard(cols, rows, padSize, n) ==
    /\ construction.status = "none"
    /\ LET board == NewFlipboard(cols, rows, padSize, n)
       IN  /\ construction' = Outcome(board)
           /\ IF board.status = "ok"
              THEN /\ numCols' = cols
                   /\ numRows' = rows
                   /\ padGrid' = board.padGrid
                   /\ staged' = [c \in DOMAIN board.padGrid |->
                                    [current |-> << NoFill, NoFill >>, next |-> << NoFill, NoFill >>,
                         cb |-> NullCb, dropped |-> {}]]
                   /\ dirty' = [c \in DOMAIN board.padGrid |-> FALSE]
              ELSE UNCHANGED << numCols, numRows, padGrid, staged, dirty >>
    /\ last' = LastTask("construct", {}, {}, {}, NullCb, 0)
    /\ UNCHANGED << loneFlap, variant, timeouts, cycler, intervals, now,
                    calls, overlap, cbRuns, lastManual >>

NextConstruct ==
    \E cols \in 1 .. MaxSide, rows \in 1 .. MaxSide, padSize \in 1 .. MaxPadSize,
       n \in 0 .. MaxList : ConstructFlipboard(cols, rows, padSize, n)

SpecConstruct == InitConstruct /\ [][NextConstruct]_vars

\* ------------------------------------------------------------ a Flap's callers
\* The handler argument of a call: a callback of the caller's, or none.
HandlerArgument(withCallback) ==
    IF withCallback THEN [set |-> TRUE, cb |-> ProbeCb(loneFlap.given + 1)] ELSE NoHandler

\* The history of a call of rotate / unrotate.
FlapCallHistory(op, withCallback) ==
    [loneFlap EXCEPT !.given = IF withCallback THEN @ + 1 ELSE @, !.lastOp = op]

\* flap.rotate(cb) / flap.rotate()
LoneFlapRotate(withCallback) ==
    /\ withCallback => loneFlap.given < MaxCalls
    /\ loneFlap' = [FlapCallHistory("rotate", withCallback) EXCEPT
                        !.obj = FlapRotate(loneFlap.obj, HandlerArgument(withCallback))]
    /\ UNCHANGED << boardVars, construction >>

\* flap.unrotate(cb) / flap.unrotate()
LoneFlapUnrotate(withCallback) ==
    /\ withCallback => loneFlap.given < MaxCalls
    /\ loneFlap' = [FlapCallHistory("unrotate", withCallback) EXCEPT
                        !.obj = FlapUnrotate(loneFlap.obj, HandlerArgument(withCallback))]
    /\ UNCHANGED << boardVars, construction >>

\* flap.enableTransition()
LoneFlapEnableTransition ==
    /\ loneFlap' = [loneFlap EXCEPT !.obj = EnableTransition(@), !.lastOp = "enableTransition"]
    /\ UNCHANGED << boardVars, construction >>

\* flap.disableTransition()
LoneFlapDisableTransition ==
    /\ loneFlap' = [loneFlap EXCEPT !.obj = DisableTransition(@), !.lastOp = "disableTransition"]
    /\ UNCHANGED << boardVars, construction >>

\* The flap's transition ends: transitionend is delivered to svgElement, and
\* the ontransitionend handler, if one is set, is called.
LoneFlapTransitionEnd ==
    /\ loneFlap.obj.running
    /\ loneFlap.events < MaxEvents
    /\ LET handler == loneFlap.obj.ontransitionend
       IN  loneFlap' = [loneFlap EXCEPT
                !.obj.running = FALSE,
                !.events = @ + 1,
                !.invoked = IF handler.set THEN [@ EXCEPT ![handler.cb.id] = @ + 1] ELSE @,
                !.lastOp = "transitionend"]
    /\ UNCHANGED << boardVars, construction >>

NextFlap ==
    \/ \E withCallback \in BOOLEAN : LoneFlapRotate(withCallback)
    \/ \E withCallback \in BOOLEAN : LoneFlapUnrotate(withCallback)
    \/ LoneFlapEnableTransition
    \/ LoneFlapDisableTransition
    \/ LoneFlapTransitionEnd

\* The page's board plays no part: it stands by, as constructed.
InitFlap ==
    /\ Init
    /\ variant = "image"
    /\ numCols = 1
    /\ numRows = 1

SpecFlap == InitFlap /\ [][NextFlap]_vars

\* ------------------------------------------------------------ a FlipPad's callers
\* The callbacks a caller passes to flipPad.flip.
PadCallbacks(c) ==
    {NullCb, FlipAgainCb(c)} \cup { SetNextPageFillCb(c, fill) : fill \in {Red, Blue} }

\* The history of a flipPad.flip(onFlipFinishedCallback): an accepted flip
\* stages the pad's fills and its callback, an ignored one adds its callback
\* to those the pad has dropped.
PadFlipHistory(c, onFlipFinishedCallback) ==
    /\ staged' = [staged EXCEPT ![c] =
            IF padGrid[c].isFlipping
            THEN [@ EXCEPT !.dropped = @ \cup {onFlipFinishedCallback}]
            ELSE [current |-> CurrentFills(padGrid[c]), next |-> NextFills(padGrid[c]),
                  cb |-> onFlipFinishedCallback, dropped |-> {}]]
    /\ dirty' = [dirty EXCEPT ![c] = @ /\ padGrid[c].isFlipping]

\* flipPad.flip(onFlipFinishedCallback), called on the pad at c.
PadFlip(c, onFlipFinishedCallback) ==
    /\ c \in Cells
    /\ calls < MaxCalls
    /\ calls' = calls + 1
    /\ padGrid' = [padGrid EXCEPT ![c] = FlipPadFlip(@, onFlipFinishedCallback)]
    /\ PadFlipHistory(c, onFlipFinishedCallback)
    /\ last' = LastTask("padFlip", {c}, { d \in {c} : padGrid[d].isFlipping }, {}, NullCb, 0)
    /\ UNCHANGED << construction, loneFlap, variant, numCols, numRows, timeouts, cycler,
                    intervals, now, overlap, cbRuns, lastManual >>

\* flipPad.setNextPageFill(fillString), called on the pad at c.
PadSetNextPageFill(c, fillString) ==
    /\ c \in Cells
    /\ padGrid' = [padGrid EXCEPT ![c] = SetNextPageFill(@, fillString)]
    /\ dirty' = [dirty EXCEPT ![c] = @ \/ padGrid[c].isFlipping]
    /\ last' = LastTask("setNextPageFill", {}, {}, {}, NullCb, 0)
    /\ UNCHANGED << construction, loneFlap, variant, numCols, numRows, timeouts, cycler,
                    intervals, now, calls, overlap, cbRuns, staged, lastManual >>

NextPad ==
    \/ \E c \in AllCells : \E cb \in PadCallbacks(c) : PadFlip(c, cb)
    \/ \E c \in AllCells, fill \in {Red, Blue} : PadSetNextPageFill(c, fill)
    \/ \E c \in AllCells, id \in FlapIds : TransitionEnd(c, id)

\* One pad of either board.
InitPad ==
    /\ Init
    /\ variant \in {"color", "image"}
    /\ numCols = 1
    /\ numRows = 1

SpecPad == InitPad /\ [][NextPad]_vars

\* ------------------------------------------------------------ properties
\* Both flaps of a page are stacking-front and unrotated.
FrontUnrotated(pad, top, bottom) ==
    /\ pad.flaps[top].zIndex = 1
    /\ pad.flaps[bottom].zIndex = 1
    /\ pad.flaps[top].transform = "0deg"
    /\ pad.flaps[bottom].transform = "0deg"

\* Both flaps of a page hold the fill.
Page(fill) == << fill, fill >>

\* C1: a flip() called on a pad that is flipping changes nothing of the pad:
\* its four flap references, every flap's fill, transform, stacking order and
\* transition flag, the pending completion handler and isFlipping are what
\* they were before the call.
C1_FlipWhileFlippingIsNoOp ==
    [][\A c \in last'.ignored : padGrid'[c] = padGrid[c]]_vars

\* A flip() has just been called on a pad that was flipping.
C1_Witness == \E c \in last.ignored : padGrid[c].isFlipping

\* C2: a completed flip leaves the pad resting, with the current page, and
\* only the current page, stacking-front and unrotated in both flaps.
C2_CompletedFlipRests ==
    \A c \in last.completed :
        LET pad == padGrid[c]
        IN  /\ ~pad.isFlipping
            /\ FrontUnrotated(pad, pad.currentTopFlap, pad.currentBottomFlap)
            /\ ~FrontUnrotated(pad, pad.nextTopFlap, pad.nextBottomFlap)

\* A completion handler has just run, its callback assigned fills, and
\* another pad is still flipping.
C2_Witness ==
    \E c \in last.completed :
        /\ AssignsFills(last.cb)
        /\ \E d \in Cells : d # c /\ padGrid[d].isFlipping

\* C3: when every Flipboard.flip() was called with the grid at rest, each call's
\* completion callback runs exactly once: never more often than there were
\* calls, and as often once everything has settled.
C3_CallbackExactlyOnce ==
    ~overlap => /\ cbRuns <= calls
                /\ Settled => cbRuns = calls

\* C4: when the completion callback of a Flipboard.flip() runs, every pad has
\* completed its flip for that call: no pad is flipping and no timer of the
\* call is pending.
C4_AllCompleteAtCallback ==
    (last.cb.kind # "null" /\ ~overlap) => Settled

\* C5: when each cycle is left to complete before the next is requested, every
\* pad's current page shows image[k mod N] after the k-th cycle.
C5_DisplayedSequence ==
    (variant = "cycler" /\ ~overlap /\ Settled) =>
        \A c \in Cells : CurrentFills(padGrid[c]) = Page(ImageFill(calls % NumImages, c))

\* C6: a completed flip with no fill assignment since its start has exchanged
\* the pad's fills (current = the staged next, next = the staged current), and
\* on the 2x1 grid with two images one cycle leaves every pad with
\* current = image 1 and next = image 0.
C6_FlipExchangesFills ==
    /\ \A c \in last.completed :
          ~dirty[c] => /\ CurrentFills(padGrid[c]) = staged[c].next
                       /\ NextFills(padGrid[c]) = staged[c].current
    /\ (variant = "cycler" /\ numCols = 2 /\ numRows = 1 /\ calls = 1 /\ Settled) =>
          \A c \in Cells : /\ CurrentFills(padGrid[c]) = Page(ImageFill(1, c))
                           /\ NextFills(padGrid[c]) = Page(ImageFill(2 % NumImages, c))

\* C7: a pad that is flipping is eventually resting again, whatever else is
\* called meanwhile, given that the transitionend events are delivered.
C7_FlipCompletes ==
    \A c \in AllCells :
        (c \in Cells /\ padGrid[c].isFlipping) ~> (c \in Cells /\ ~padGrid[c].isFlipping)

\* disableCycling() has just been called while a pad is flipping.
C7_Witness ==
    /\ last.op = "disableCycling"
    /\ \E c \in Cells : padGrid[c].isFlipping

\* C8: the Cycler's callback leaves currentIndex in 0..N-1 and every pad's next
\* page on the image one past it, and currentIndex advances by one step per
\* completed grid flip.
C8_IndexStepsOncePerFlip ==
    variant = "cycler" =>
        /\ cycler.currentIndex \in 0 .. NumImages - 1
        /\ last.cb.kind = "cycler" =>
              \A c \in Cells :
                  NextFills(padGrid[c]) = Page(ImageFill((cycler.currentIndex + 1) % NumImages, c))
        /\ (~overlap /\ Settled) => cycler.currentIndex = calls % NumImages

\* C9: at most one periodic timer is active, and exactly one after
\* enableCycling(), however often it is called in a row.
C9_AtMostOneTimer ==
    /\ Cardinality(intervals) <= 1
    /\ last.op = "enableCycling" => Cardinality(intervals) = 1

\* enableCycling() has just been called twice in a row.
C9_Witness == last.streak = 2 /\ Cardinality(intervals) = 1

\* C10: manualCycle() flips the grid at once; with cycling enabled the one
\* timer is then due a full period later, with cycling disabled no timer is
\* active; and no automatic cycle comes less than a period after a manual one.
C10_ManualCycleResetsPhase ==
    /\ last.op = "manualCycle" =>
          /\ \A c \in Cells : BagIn([pad |-> c, cb |-> CyclerCb], timeouts)
          /\ IF cycler.enabled
             THEN intervals = { [id |-> cycler.interval, due |-> now + CyclePeriod] }
             ELSE intervals = {}
    /\ (last.op = "interval" /\ lastManual >= 0) => now >= lastManual + CyclePeriod

\* The timer has fired at t = 5 after a manualCycle() at t = 1.
C10_Witness == last.op = "interval" /\ lastManual = 1 /\ now = 1 + CyclePeriod

\* C11: while cycling is disabled no periodic timer is active and no automatic
\* cycle runs, and disableCycling() leaves currentIndex and every pad (so every
\* current and next fill) as they were.
C11_DisableStopsOnlyTimer ==
    /\ [](~cycler.enabled => intervals = {})
    /\ [](last.op = "interval" => cycler.enabled)
    /\ [][last'.op = "disableCycling" =>
            /\ cycler'.currentIndex = cycler.currentIndex
            /\ padGrid' = padGrid]_vars

\* disableCycling() has just been called, after the timer had run for at least
\* a period and a cycle had completed on the pad.
C11_Witness ==
    /\ last.op = "disableCycling"
    /\ now >= CyclePeriod
    /\ cbRuns >= 1

\* The pattern of patternsDiv that belongs to image i and cell (col, row).
PatternsOf(i, col, row) ==
    { p \in construction.patternsDiv : p.image.href = i /\ p.col = col /\ p.row = row }

\* C12: a constructed Flipboard holds exactly the pads (col, row) with
\* 0 <= col < numCols and 0 <= row < numRows, and setCurrentImage / setNextImage
\* have given the pad at (col, row) the fill that refers to the pattern of
\* fragment (col, row) of the first / second image, on both flaps of the
\* current / next page.
C12_ImagesAssignedCellwise ==
    construction.status = "ok" =>
        /\ DOMAIN padGrid = (0 .. construction.numCols - 1) \X (0 .. construction.numRows - 1)
        /\ \A c \in DOMAIN padGrid :
            /\ \E p \in PatternsOf(0, c[1], c[2]) :
                  CurrentFills(padGrid[c]) = Page(FillUrl(p.id))
            /\ \E p \in PatternsOf(1, c[1], c[2]) :
                  NextFills(padGrid[c]) = Page(FillUrl(p.id))

\* A board that is not square has been constructed.
C12_Witness ==
    /\ construction.status = "ok"
    /\ construction.numCols = 2
    /\ construction.numRows = 3

C14_PatternIdsInjective ==
    /\ \A p, q \in construction.patternsDiv : p.id = q.id => p = q
    /\ \A i \in 0 .. construction.numImages - 1,
          col \in 0 .. construction.numCols - 1, row \in 0 .. construction.numRows - 1 :
          Cardinality(PatternsOf(i, col, row)) = 1
    /\ Cardinality({ p.id : p \in construction.patternsDiv })
          = construction.numImages * construction.numCols * construction.numRows

\* Patterns of several images were created for a board of several columns and rows.
C14_Witness ==
    /\ construction.numImages >= 2
    /\ construction.numCols >= 2
    /\ construction.numRows >= 2
    /\ Cardinality(construction.patternsDiv) >= 8

\* C15: a callback passed to rotate / unrotate runs at most once, and a call
\* made with the transition disabled starts no transition (so no transitionend
\* follows it).
C15_CallbackOneShot ==
    /\ \A k \in 1 .. MaxCalls : loneFlap.invoked[k] <= 1
    /\ (loneFlap.lastOp \in {"rotate", "unrotate"} /\ ~loneFlap.obj.transition)
          => ~loneFlap.obj.running

\* C16: a constructor given fewer than two images throws: with one image
\* after the current image was assigned and before the next one is, with none
\* before the current one is; the segmenters and patterns were built before
\* (nothing validates the list), and no Flipboard results.
C16_TooFewImagesThrows ==
    (construction.status # "none" /\ construction.numImages < 2) =>
        /\ construction.status = "threw"
        /\ construction.currentAssigned = (construction.numImages = 1)
        /\ ~construction.nextAssigned
        /\ construction.numImages = 1 => construction.patternsDiv # {}
        /\ padGrid = << >>

\* The constructor was given one image and threw.
C16_Witness ==
    /\ construction.status = "threw"
    /\ construction.numImages = 1
    /\ construction.currentAssigned

\* The flaps of a pad whose completion handler is pending: a transition runs
\* on them and ontransitionend is set.
PendingHandlers(pad) ==
    { id \in FlapIds : pad.flaps[id].running /\ pad.flaps[id].ontransitionend.set }

\* C17 as stated: at rest both flaps of the current page are stacking-front and
\* unrotated, and both flaps of the next page are stacking-back and rotated.
C17_NextPairRotatedAtRest ==
    \A c \in Cells :
        LET pad == padGrid[c]
        IN  ~pad.isFlipping =>
                /\ FrontUnrotated(pad, pad.currentTopFlap, pad.currentBottomFlap)
                /\ pad.flaps[pad.nextTopFlap].zIndex = -1
                /\ pad.flaps[pad.nextBottomFlap].zIndex = -1
                /\ pad.flaps[pad.nextTopFlap].transform = "180deg"
                /\ pad.flaps[pad.nextBottomFlap].transform = "180deg"

\* C17, amended: at rest both flaps of the current page are stacking-front and
\* unrotated and both flaps of the next page are stacking-back; of the next
\* page the bottom flap is rotated and the top flap is unrotated.
C17_RestingPages ==
    \A c \in Cells :
        LET pad == padGrid[c]
        IN  ~pad.isFlipping =>
                /\ FrontUnrotated(pad, pad.currentTopFlap, pad.currentBottomFlap)
                /\ pad.flaps[pad.nextTopFlap].zIndex = -1
                /\ pad.flaps[pad.nextBottomFlap].zIndex = -1
                /\ pad.flaps[pad.nextTopFlap].transform = "0deg"
                /\ pad.flaps[pad.nextBottomFlap].transform = "180deg"

\* A pad rests after its second completed flip.
C17_Witness ==
    /\ calls = 2
    /\ \E c \in last.completed : ~padGrid[c].isFlipping /\ padGrid[c].currentTopFlap = 1

\* C18: a pad has at most one completion handler pending, isFlipping is true
\* exactly while one is, and while a pad stays flipping no transition is
\* started on it: its flaps' transforms, transitions and handlers stay as they
\* are.
C18_OneTransitionInFlight ==
    /\ [](\A c \in Cells :
            /\ Cardinality(PendingHandlers(padGrid[c])) <= 1
            /\ padGrid[c].isFlipping <=> PendingHandlers(padGrid[c]) # {})
    /\ [][\A c \in Cells :
            (padGrid[c].isFlipping /\ padGrid'[c].isFlipping) =>
                \A id \in FlapIds :
                    /\ padGrid'[c].flaps[id].transform = padGrid[c].flaps[id].transform
                    /\ padGrid'[c].flaps[id].running = padGrid[c].flaps[id].running
                    /\ padGrid'[c].flaps[id].transition = padGrid[c].flaps[id].transition
                    /\ padGrid'[c].flaps[id].ontransitionend = padGrid[c].flaps[id].ontransitionend]_vars

\* A second Flipboard.flip() has reached a pad that is still flipping.
C18_Witness ==
    /\ calls = 2
    /\ \E c \in last.ignored : PendingHandlers(padGrid[c]) # {}

\* C20: while a pad is flipping its next-bottom flap is stacking-front and its
\* current-bottom flap stacking-back, its current-top flap is front and its
\* next-top flap back.
C20_TransitionDepths ==
    \A c \in Cells :
        LET pad == padGrid[c]
        IN  pad.isFlipping =>
                /\ pad.flaps[pad.nextBottomFlap].zIndex = 1
                /\ pad.flaps[pad.currentBottomFlap].zIndex = -1
                /\ pad.flaps[pad.currentTopFlap].zIndex = 1
                /\ pad.flaps[pad.nextTopFlap].zIndex = -1

\* A pad is flipping while another pad's completion handler has just run and
\* its callback has assigned fills.
C20_Witness ==
    /\ last.completed # {}
    /\ AssignsFills(last.cb)
    /\ \E c \in Cells : padGrid[c].isFlipping /\ padGrid[c].currentTopFlap = 4

\* C19: the handler calls onFinished after the page swap and the resting
\* depths, and before it resets isFlipping: a flip() of the same pad from
\* inside onFinished is ignored (the pad rests afterwards, no transition runs,
\* no handler is pending), and a setNextPageFill from inside onFinished fills
\* the flaps that were the current page and are now the hidden next page, and
\* leaves the page that has become current as it was.
C19_CallbackBetweenSwapAndRest ==
    [][\A c \in last'.completed :
          LET old == padGrid[c]
              new == padGrid'[c]
          IN  /\ ~new.isFlipping
              /\ last'.cb.kind = "flipAgain" =>
                    /\ PendingHandlers(new) = {}
                    /\ \A id \in FlapIds : ~new.flaps[id].running
                    /\ FrontUnrotated(new, new.currentTopFlap, new.currentBottomFlap)
              /\ last'.cb.kind = "setNextPageFill" =>
                    /\ new.nextTopFlap = old.currentTopFlap
                    /\ new.nextBottomFlap = old.currentBottomFlap
                    /\ NextFills(new) = Page(last'.cb.color)
                    /\ new.flaps[new.nextTopFlap].zIndex = -1
                    /\ new.flaps[new.nextBottomFlap].zIndex = -1
                    /\ CurrentFills(new) = NextFills(old)]_vars

\* A completion handler has just run a callback that called flip() on its pad,
\* after one that assigned a fill.
C19_Witness ==
    /\ last.completed # {}
    /\ last.cb.kind = "flipAgain"
    /\ \E c \in last.completed : NextFills(padGrid[c]) \in {Page(Red), Page(Blue)}

\* The flaps of a pad whose rotation state a step changes.
Turned(c) ==
    { id \in FlapIds : padGrid'[c].flaps[id].transform # padGrid[c].flaps[id].transform }

\* The four flap references of a pad.
References(pad) ==
    << pad.currentTopFlap, pad.currentBottomFlap, pad.nextTopFlap, pad.nextBottomFlap >>

\* C21: an accepted flip() turns exactly the current-top flap (to rotated) and
\* the next-bottom flap (to rest), both with their transition enabled; the
\* completion handler turns exactly the current-bottom flap (to rotated) and
\* the current-top flap (to rest), both with their transition disabled; no
\* other step turns a flap.
C21_AnimatedOnlyAtFlipStart ==
    [][\A c \in Cells :
          LET old == padGrid[c]
              new == padGrid'[c]
          IN  IF c \in last'.called \ last'.ignored
              THEN /\ Turned(c) = {old.currentTopFlap, old.nextBottomFlap}
                   /\ new.flaps[old.currentTopFlap].transform = "180deg"
                   /\ new.flaps[old.nextBottomFlap].transform = "0deg"
                   /\ new.flaps[old.currentTopFlap].transition
                   /\ new.flaps[old.nextBottomFlap].transition
              ELSE IF c \in last'.completed
              THEN /\ Turned(c) = {old.currentBottomFlap, old.currentTopFlap}
                   /\ new.flaps[old.currentBottomFlap].transform = "180deg"
                   /\ new.flaps[old.currentTopFlap].transform = "0deg"
                   /\ ~new.flaps[old.currentBottomFlap].transition
                   /\ ~new.flaps[old.currentTopFlap].transition
              ELSE Turned(c) = {}]_vars

\* A pad's second flip has just been accepted.
C21_Witness ==
    \E c \in last.called \ last.ignored :
        padGrid[c].isFlipping /\ padGrid[c].currentTopFlap = 4

\* C22: the four references of a pad denote four different flaps, and these
\* are the four flaps its constructor created.
C22_FourDistinctFlaps ==
    \A c \in Cells :
        LET pad == padGrid[c]
        IN  /\ Cardinality({ References(pad)[i] : i \in 1 .. 4 }) = 4
            /\ { References(pad)[i] : i \in 1 .. 4 } = FlapIds
            /\ DOMAIN pad.flaps = FlapIds

\* A pad's pages have been exchanged by a completed flip whose callback
\* assigned fills.
C22_Witness ==
    \E c \in last.completed :
        /\ padGrid[c].currentTopFlap = 4
        /\ AssignsFills(last.cb)

CarriedCallback(c) ==
    padGrid[c].flaps[padGrid[c].currentTopFlap].ontransitionend.cb

\* C24: in the staggered Flipboard.flip() a timer starts its pad's flip with
\* the grid's completion callback if and only if the pad is the one at the
\* final iteration position.
C24_OnlyLastCellCarriesCallback ==
    (variant # "color" /\ last.op = "timeout") =>
        \A c \in last.called \ last.ignored :
            (CarriedCallback(c) # NullCb) <=> (NumPadsFlippedAt(c) >= GetNumPads)

\* C25: the current fills of a pad whose flip has just completed are the next
\* fills it had when the flip began, whatever ran in between.
C25_ShownFillIsStagedFill ==
    \A c \in last.completed : CurrentFills(padGrid[c]) = staged[c].next

\* All pads show their fragment of one image (one colour on the colour board).
SameImage ==
    IF variant = "color"
    THEN \A c, d \in Cells : CurrentFills(padGrid[c]) = CurrentFills(padGrid[d])
    ELSE \E k \in 0 .. NumImages - 1 :
            \A c \in Cells : CurrentFills(padGrid[c]) = Page(ImageFill(k, c))

\* C26: whenever every pad rests and no timer of a Flipboard.flip() is
\* outstanding, all pads display the same image, whether or not the calls
\* overlapped.
C26_RestingGridShowsOneImage ==
    Settled => SameImage

\* C27: a Flipboard.flip() of the colour board that started the flip of at
\* least one pad has left its completion callback with a flip in flight, so
\* that it will be invoked.
C27_CallbackNotLost ==
    (variant = "color" /\ last.op = "flip" /\ last.called \ last.ignored # {}) =>
        \E c \in Cells :
            /\ padGrid[c].isFlipping
            /\ CarriedCallback(c) = SetNextColorCb(GetRandomColor(calls))

\* C28: a flip() that a flipping pad ignores leaves the callback of the flip
\* in flight in place; a completion handler runs on a flipping pad only, and
\* the callback it invokes is the one the accepted flip was called with, once;
\* no callback is invoked by any other step.
C28_DroppedCallbackNeverRuns ==
    [][/\ \A c \in last'.ignored : CarriedCallback(c)' = CarriedCallback(c)
       /\ \A c \in last'.completed :
             /\ padGrid[c].isFlipping
             /\ last'.cb = staged[c].cb
             /\ cbRuns' = cbRuns + (IF staged[c].cb = NullCb THEN 0 ELSE 1)
       /\ cbRuns' # cbRuns => last'.completed # {}]_vars

\* A flip has completed and run its callback after the pad ignored a flip()
\* with another callback.
C28_Witness ==
    \E c \in last.completed :
        /\ last.cb # NullCb
        /\ \E cb \in staged[c].dropped : cb # NullCb /\ cb # last.cb

\* The pad at c as its constructor left it.
ConstructedPad(c) ==
    IF variant = "color" THEN NewColorPadGrid(numCols, numRows)[c]
    ELSE NewImagePadGrid(numCols, numRows)[c]

\* What the claims call a pad's configuration: which flap each reference
\* denotes, and each flap's fill, rotation state and stacking order.
Configuration(pad) ==
    [ references |-> References(pad),
      flaps |-> [id \in FlapIds |->
                    [ fill |-> pad.flaps[id].fill,
                      transform |-> pad.flaps[id].transform,
                      zIndex |-> pad.flaps[id].zIndex ]] ]

\* The rotation state and stacking order at each of a pad's four references.
RestingShape(pad) ==
    [i \in 1 .. 4 |-> [ transform |-> pad.flaps[References(pad)[i]].transform,
                        zIndex |-> pad.flaps[References(pad)[i]].zIndex ]]

\* No fill has been assigned since the board was constructed.
NoFillAssigned == variant = "image" \/ cbRuns = 0

\* C29: with no fill assigned since construction, a resting pad whose pages
\* have been exchanged an even number of times is in its constructed
\* configuration (same flap at each reference, same fill, rotation state and
\* stacking order of each flap), and one whose pages have been exchanged an odd
\* number of times has current and next exactly exchanged: the references
\* swapped pairwise, every flap with its own fill, and the same rotation state
\* and stacking order at each reference.
C29_TwoFlipsRestoreConfiguration ==
    \A c \in Cells :
        LET pad == padGrid[c]
            new == ConstructedPad(c)
        IN  (NoFillAssigned /\ ~pad.isFlipping) =>
                IF pad.currentTopFlap = new.currentTopFlap
                THEN Configuration(pad) = Configuration(new)
                ELSE /\ References(pad) = << new.nextTopFlap, new.nextBottomFlap,
                                             new.currentTopFlap, new.currentBottomFlap >>
                     /\ \A id \in FlapIds : pad.flaps[id].fill = new.flaps[id].fill
                     /\ CurrentFills(pad) = NextFills(new)
                     /\ NextFills(pad) = CurrentFills(new)
                     /\ RestingShape(pad) = RestingShape(new)

\* The second flip of a pad of the image board has just completed, and the
\* other pad has completed one flip.
C29_Witness ==
    /\ variant = "image"
    /\ calls = 2
    /\ AllResting
    /\ \E c \in last.completed : padGrid[c].currentTopFlap = 1
    /\ \E c \in Cells : padGrid[c].currentTopFlap = 4

\* C30: currentTop and nextTop are the two flaps constructed with
\* Orientation.TOP, currentBottom and nextBottom the two constructed with
\* Orientation.BOTTOM.
C30_OrientationRolesPreserved ==
    \A c \in Cells :
        LET pad == padGrid[c]
            new == ConstructedPad(c)
        IN  /\ {pad.currentTopFlap, pad.nextTopFlap}
                  = { id \in FlapIds : new.flaps[id].orientation = TOP }
            /\ {pad.currentBottomFlap, pad.nextBottomFlap}
                  = { id \in FlapIds : new.flaps[id].orientation = BOTTOM }
            /\ \A id \in FlapIds : pad.flaps[id].orientation = new.flaps[id].orientation
            /\ Cardinality({ id \in FlapIds : new.flaps[id].orientation = TOP }) = 2

\* A completed flip has made the flaps constructed as the current page the
\* next page.
C30_Witness ==
    \E c \in last.completed :
        /\ padGrid[c].nextTopFlap = ConstructedPad(c).currentTopFlap
        /\ padGrid[c].nextBottomFlap = ConstructedPad(c).currentBottomFlap
        /\ padGrid[c].flaps[padGrid[c].nextTopFlap].orientation = TOP

====
